---- MODULE Spec2Model ----
(***************************************************************************)
(* The browser video trimmer: VideoEditor (session state), VideoUpload,    *)
(* and VideoTimeline (playback cursor, trim markers, pointer drags and the *)
(* asynchronous trim job run against the ffmpeg engine).                   *)
(*                                                                         *)
(* JavaScript Numbers are binary floating point with round-to-nearest,     *)
(* ties-to-even.  The model keeps that arithmetic with a significand of    *)
(* Precision bits instead of 53: a Number is the integer n standing for    *)
(* n / 2^FracBits, and every operation rounds its exact result to          *)
(* Precision significant bits.  0.1 has the binary expansion               *)
(* 0.000110011..., of period 4, so a significand of 9 bits (9 = 53 mod 4)  *)
(* rounds 0.1 and the sums it enters in the direction binary64 does.       *)
(***************************************************************************)
EXTENDS Integers, Sequences, FiniteSets, TLC

-----------------------------------------------------------------------------
(* Bounds of the model *)

\* significand bits of a Number
Precision == 9

\* assets loaded one after another in the timeline specification
MaxMounts == 2

\* trim jobs and assets of the trim session specification
MaxJobs == 3

SessionMounts == 1

\* trim jobs and assets of the cut specification
CutJobs == 1

CutMounts == 1

\* trim jobs of the repeated-trim specification
RetrimJobs == 2

-----------------------------------------------------------------------------
(* Number arithmetic *)

FracBits == Precision + 5

One == 2 ^ FracBits

Abs(n) == IF n < 0 THEN -n ELSE n

\* The number of bits of n >= 0.
RECURSIVE BitLen(_)
BitLen(n) ==
    IF n >= 256 THEN 8 + BitLen(n \div 256)
    ELSE IF n >= 16 THEN 4 + BitLen(n \div 16)
    ELSE IF n >= 8 THEN 4 ELSE IF n >= 4 THEN 3 ELSE IF n >= 2 THEN 2 ELSE n

\* The Number nearest to num / den grid units (den > 0), ties to even.
RoundQ(num, den) ==
    LET n  == Abs(num)
        e  == n \div den
        bl == BitLen(e)
        q  == IF bl <= Precision THEN 1 ELSE 2 ^ (bl - Precision)
        lo == (e \div q) * q
        r2 == 2 * (n - lo * den)
        m  == IF r2 < q * den THEN lo
              ELSE IF r2 > q * den THEN lo + q
              ELSE IF (lo \div q) % 2 = 0 THEN lo ELSE lo + q
    IN  IF num < 0 THEN -m ELSE m

\* The number of zero bits n > 0 ends in (0 for n = 0).
RECURSIVE TrailingZeros(_)
TrailingZeros(n) ==
    IF n = 0 THEN 0
    ELSE IF n % 256 = 0 THEN 8 + TrailingZeros(n \div 256)
    ELSE IF n % 16 = 0 THEN 4 + TrailingZeros(n \div 16)
    ELSE IF n % 8 = 0 THEN 3 ELSE IF n % 4 = 0 THEN 2 ELSE IF n % 2 = 0 THEN 1 ELSE 0

FAdd(a, b) == RoundQ(a + b, 1)

FSub(a, b) == RoundQ(a - b, 1)

\* a * b of two Numbers: the significands are multiplied exactly, then rounded.
FMul(a, b) ==
    LET ka == TrailingZeros(Abs(a))
        kb == TrailingZeros(Abs(b))
        ma == a \div (2 ^ ka)
        mb == b \div (2 ^ kb)
        k  == ka + kb
    IN  IF k >= FracBits
        THEN RoundQ(ma * mb * 2 ^ (k - FracBits), 1)
        ELSE RoundQ(ma * mb, 2 ^ (FracBits - k))

\* x / w of two integers (pixel coordinates), w > 0.
FDiv(x, w) == RoundQ(x * One, w)

FMin(a, b) == IF a <= b THEN a ELSE b

FMax(a, b) == IF a >= b THEN a ELSE b

\* The literal 0.1
Tenth == RoundQ(One, 10)

\* Seconds given as a fraction p / q
Secs(p, q) == RoundQ(p * One, q)

-----------------------------------------------------------------------------
(* Inputs: the uploaded files, the device, pointer positions, engine errors *)

\* A filename is the sequence of its parts between the dots: clip.MP4 is
\* <<"clip", "MP4">>.
\* File.size is in bytes.
MB == 1024 * 1024

Files ==
    { [name |-> <<"clip", "mp4">>, type |-> "video/mp4",       size |-> 10 * MB],
      [name |-> <<"b", "MOV">>,    type |-> "video/quicktime", size |-> 20 * MB],
      [name |-> <<"notes", "txt">>, type |-> "text/plain",     size |-> 1] }

\* navigator.userAgent is a mobile one or not; navigator.deviceMemory in GB,
\* 0 where the API is missing.
Device == [mobile |-> FALSE, memory |-> 8]

\* The devices the size cap tells apart: a desktop, a desktop whose browser
\* has no deviceMemory, a low-memory desktop (4 GB and 2 GB), a phone.
Devices ==
    { Device,
      [mobile |-> FALSE, memory |-> 0],
      [mobile |-> FALSE, memory |-> 4],
      [mobile |-> FALSE, memory |-> 2],
      [mobile |-> TRUE,  memory |-> 4] }

\* Durations (seconds) a decoded asset may report.
Durations == { Secs(10, 1), Secs(1, 16) }

\* timelineRef.current.getBoundingClientRect(), in px.
Rect == [left |-> 30, width |-> 200]

\* clientX of the pointer events: on the part of a marker's hit region that
\* lies left of the timeline, the left edge, 20 %, 20.5 % and 60 % of the
\* width, the right edge, and right of the timeline on a hit region.
PointerXs ==
    { Rect.left - 20, Rect.left, Rect.left + 40, Rect.left + 41,
      Rect.left + 120, Rect.left + Rect.width, Rect.left + Rect.width + 20 }

\* Values an engine call rejects with: an Error object, or any other value.
\* text is the message of the Error, or the value itself.
Thrown == { [isError |-> TRUE,  text |-> "FS error"],
            [isError |-> FALSE, text |-> "ErrnoError: FS error"] }

\* progress values the engine pushes, as Math.round(progress * 100)
ProgressValues == { 70, 30 }

-----------------------------------------------------------------------------
(* State *)

VARIABLES
    videoFile,          \* VideoEditor: the loaded asset or NoFile
    isProcessing,       \* VideoEditor
    isLoading,          \* VideoUpload
    upload,             \* VideoUpload: the handleUpload call awaiting its reads
    duration, currentTime, isPlaying, startTime, endTime,
    isDraggingStart, isDraggingEnd,
    trimmedVideoUrl, ffmpegLoaded, processingProgress,   \* VideoTimeline state
    video,              \* the preview <video> element behind videoRef
    listener,           \* render whose handleMove/handleEnd the window holds
    mouseHeld,          \* what the pressed mouse button went down on
    engines,            \* the FFmpeg instance each VideoTimeline mounted so far
                        \* created (ffmpegRef.current), in order of the mounts
    jobs,               \* the handleTrim invocations, in order of their start
    toast,              \* the last notification shown
    device,             \* the navigator the page runs in
    download,           \* the last anchor handleDownload clicked
    objectUrls          \* the blob URLs of loaded assets and of artifacts that
                        \* were created and not revoked

editorVars   == <<videoFile, isProcessing>>
uploadVars   == <<isLoading, upload>>
rangeVars    == <<startTime, endTime>>
dragVars     == <<isDraggingStart, isDraggingEnd, listener, mouseHeld>>
playVars     == <<currentTime, isPlaying, video>>
trimVars     == <<trimmedVideoUrl, processingProgress, jobs>>
engineVars   == <<ffmpegLoaded, engines>>
envVars      == <<device, download, objectUrls>>

vars == <<videoFile, isProcessing, isLoading, upload, duration,
          currentTime, isPlaying, startTime, endTime, isDraggingStart,
          isDraggingEnd, trimmedVideoUrl, ffmpegLoaded, processingProgress,
          video, listener, mouseHeld, engines, jobs, toast, device, download,
          objectUrls>>

NoFile == [none |-> TRUE]

NoUpload == [none |-> TRUE]

NoListener == [none |-> TRUE]

NoToast == [title |-> "", description |-> "", variant |-> ""]

Null == [null |-> TRUE]

NoDownload == [none |-> TRUE]

NoVideo == [ready |-> FALSE, time |-> 0, paused |-> TRUE]

Toast(title, description, variant) ==
    [title |-> title, description |-> description, variant |-> variant]

\* The VideoTimeline is rendered exactly while an asset is loaded.
Mounted == videoFile # NoFile

\* The number of VideoTimeline instances mounted so far; the mounted one is
\* the last.
mounts == Len(engines)

\* The page freshly loaded in the navigator dev.
InitIn(dev) ==
    /\ device = dev
    /\ download = NoDownload
    /\ objectUrls = {}
    /\ videoFile = NoFile
    /\ isProcessing = FALSE
    /\ isLoading = FALSE
    /\ upload = NoUpload
    /\ duration = 0
    /\ currentTime = 0
    /\ isPlaying = FALSE
    /\ startTime = 0
    /\ endTime = 0
    /\ isDraggingStart = FALSE
    /\ isDraggingEnd = FALSE
    /\ trimmedVideoUrl = Null
    /\ ffmpegLoaded = FALSE
    /\ processingProgress = 0
    /\ video = NoVideo
    /\ listener = NoListener
    /\ mouseHeld = "none"
    /\ engines = <<>>
    /\ jobs = <<>>
    /\ toast = NoToast

Init == InitIn(Device)

-----------------------------------------------------------------------------
(* VideoUpload *)

acceptedFormats == { "video/mp4", "video/quicktime", "video/x-msvideo" }

\* getMaxFileSize without the branch of the low-memory device: the variant
\* C15 has to tell from the code.
getMaxFileSizeIgnoringMemory ==
    IF device.mobile THEN 256 * MB ELSE 1024 * MB

\* The size cap in bytes.
getMaxFileSize ==
    IF device.mobile THEN 256 * MB
    ELSE IF device.memory # 0 /\ device.memory <= 4 THEN 512 * MB
    ELSE 1024 * MB

\* A VideoTimeline that stays mounted from one asset to the next and so
\* keeps its markers: the variant C26 has to tell from the code.
TimelineKeepingRange ==
    /\ duration' = 0
    /\ currentTime' = 0
    /\ isPlaying' = FALSE
    /\ UNCHANGED <<startTime, endTime>>
    /\ isDraggingStart' = FALSE
    /\ isDraggingEnd' = FALSE
    /\ trimmedVideoUrl' = Null
    /\ ffmpegLoaded' = FALSE
    /\ processingProgress' = 0
    /\ video' = NoVideo
    /\ listener' = NoListener
    /\ mouseHeld' = "none"

\* useState initial values of a freshly mounted VideoTimeline, and its refs.
TimelineFresh ==
    /\ duration' = 0
    /\ currentTime' = 0
    /\ isPlaying' = FALSE
    /\ startTime' = 0
    /\ endTime' = 0
    /\ isDraggingStart' = FALSE
    /\ isDraggingEnd' = FALSE
    /\ trimmedVideoUrl' = Null
    /\ ffmpegLoaded' = FALSE
    /\ processingProgress' = 0
    /\ video' = NoVideo
    /\ listener' = NoListener
    /\ mouseHeld' = "none"

timelineVars == <<duration, currentTime, isPlaying, startTime, endTime,
                  isDraggingStart, isDraggingEnd, trimmedVideoUrl, ffmpegLoaded,
                  processingProgress, video, listener, mouseHeld>>

\* handleUpload without the format validation: the variant C14 has to tell
\* from the code.
handleUploadAnyFormat(file) ==
    /\ ~Mounted
    /\ ~isLoading
    /\ UNCHANGED <<editorVars, timelineVars, engines, jobs>>
    /\ IF file.size > getMaxFileSize
       THEN /\ toast' = Toast("File too large",
                              "Maximum file size is ... Your file is ...",
                              "destructive")
            /\ UNCHANGED uploadVars
       ELSE /\ toast' = IF file.size > (getMaxFileSize \div 4) * 3
                        THEN Toast("Large file detected",
                                   "Processing may be slow", "default")
                        ELSE toast
            /\ isLoading' = TRUE
            /\ upload' = file
    /\ UNCHANGED envVars

\* handleUpload up to its first await: the format and size validation.
\* maxFileSize * 0.75 is exact: the caps are multiples of 4.
handleUpload(file) ==
    /\ ~Mounted
    /\ ~isLoading
    /\ UNCHANGED <<editorVars, timelineVars, engines, jobs>>
    /\ IF file.type \notin acceptedFormats
       THEN /\ toast' = Toast("Invalid file format",
                              "Please upload a video file (MP4, MOV, or AVI)",
                              "destructive")
            /\ UNCHANGED uploadVars
       ELSE IF file.size > getMaxFileSize
       THEN /\ toast' = Toast("File too large",
                              "Maximum file size is ... Your file is ...",
                              "destructive")
            /\ UNCHANGED uploadVars
       ELSE /\ toast' = IF file.size > (getMaxFileSize \div 4) * 3
                        THEN Toast("Large file detected",
                                   "Processing may be slow", "default")
                        ELSE toast
            /\ isLoading' = TRUE
            /\ upload' = file
    /\ UNCHANGED envVars

\* URL.createObjectURL(blob) of the n-th asset loaded
SourceUrl(n, type) == [kind |-> "source", blob |-> n, type |-> type]

\* handleUpload after the bytes are read and the metadata of the probe
\* element has loaded: the asset is handed to VideoEditor (handleVideoUpload),
\* which renders a new VideoTimeline; its mount effect creates the FFmpeg
\* instance and starts load().
handleUploadLoaded(d) ==
    /\ upload # NoUpload
    /\ videoFile' = [url |-> SourceUrl(mounts + 1, upload.type),
                     filename |-> upload.name, type |-> upload.type,
                     size |-> upload.size, duration |-> d, data |-> TRUE]
    /\ objectUrls' = objectUrls \cup { SourceUrl(mounts + 1, upload.type) }
    /\ TimelineFresh
    /\ engines' = Append(engines, "loading")
    /\ toast' = Toast("Video loaded successfully", upload.name, "default")
    /\ isLoading' = FALSE
    /\ upload' = NoUpload
    /\ UNCHANGED <<isProcessing, jobs>>
    /\ UNCHANGED <<device, download>>

\* handleUpload when a read or the probe element's load rejects.
handleUploadFailed ==
    /\ upload # NoUpload
    /\ toast' = Toast("Failed to load video",
                      "Please try again with a different file", "destructive")
    /\ isLoading' = FALSE
    /\ upload' = NoUpload
    /\ UNCHANGED <<editorVars, timelineVars, engines, jobs>>
    /\ UNCHANGED envVars

-----------------------------------------------------------------------------
(* VideoEditor *)

\* The New Video button (disabled while isProcessing): handleReset revokes
\* the asset's URL.  The VideoTimeline unmounts, which removes its window
\* listeners.
handleReset ==
    /\ Mounted
    /\ ~isProcessing
    /\ objectUrls' = objectUrls \ { videoFile.url }
    /\ videoFile' = NoFile
    /\ isProcessing' = FALSE
    /\ TimelineFresh
    /\ UNCHANGED <<uploadVars, engines, jobs, toast>>
    /\ UNCHANGED <<device, download>>

-----------------------------------------------------------------------------
(* VideoTimeline: metadata, pointer mapping, markers *)

\* The loadedmetadata event of the preview element.
handleLoadedMetadata ==
    /\ Mounted
    /\ ~video.ready
    /\ video' = [video EXCEPT !.ready = TRUE]
    /\ duration' = videoFile.duration
    /\ endTime' = videoFile.duration
    /\ UNCHANGED <<editorVars, uploadVars, currentTime, isPlaying, startTime,
                   dragVars, trimVars, engineVars, toast>>
    /\ UNCHANGED envVars

\* x / rect.width of handleTimelineClick
ClickFraction(clientX) == FDiv(clientX - Rect.left, Rect.width)

\* Math.max(0, Math.min(1, x / rect.width)) of handleMarkerDrag
DragFraction(clientX) == FMax(0, FMin(One, FDiv(clientX - Rect.left, Rect.width)))

\* The setter of HTMLMediaElement.currentTime keeps the position inside the
\* media: [0, duration of the resource].
SeekPosition(t) == FMax(0, FMin(t, videoFile.duration))

\* Hit testing along the timeline.  A marker sits at left: (time/duration)*100 %
\* of the timeline; its hit region reaches HitHalf to either side (-left-6 w-12)
\* and the timeline lets it overflow.  While duration is 0 the percentage is
\* NaN or infinite, the style is dropped and both markers sit at the left edge,
\* the end marker (later in the document) covering the start marker.
HitHalf == 24

InHit(clientX, t) ==
    IF duration = 0
    THEN Abs(clientX - Rect.left) <= HitHalf
    ELSE Abs((clientX - Rect.left) * duration - t * Rect.width) <= HitHalf * duration

InBox(clientX) == Rect.left <= clientX /\ clientX <= Rect.left + Rect.width

Target(clientX) ==
    IF InHit(clientX, endTime) THEN "end"
    ELSE IF InHit(clientX, startTime) /\ duration # 0 THEN "start"
    ELSE IF InBox(clientX) THEN "timeline"
    ELSE "outside"

\* The pointer position on the timeline nearest to clientX.
NearestOnTimeline(clientX) ==
    IF clientX < Rect.left THEN Rect.left
    ELSE IF clientX > Rect.left + Rect.width THEN Rect.left + Rect.width
    ELSE clientX

\* handleTimelineClick with the render's duration.
handleTimelineClick(clientX) ==
    LET time == FMul(ClickFraction(clientX), duration)
    IN  /\ video' = [video EXCEPT !.time = SeekPosition(time)]
        /\ currentTime' = time

\* handleMarkerDrag with the start marker clamped against endTime itself and
\* the end marker against startTime itself: the variant the clamp rule of C3
\* has to tell from the code.
handleMarkerDragNoGap(clientX, isStart, r) ==
    LET time == FMul(DragFraction(clientX), r.duration)
    IN  IF isStart
        THEN /\ startTime' = FMin(time, r.endTime)
             /\ UNCHANGED endTime
        ELSE /\ endTime' = FMax(time, r.startTime)
             /\ UNCHANGED startTime

\* handleMarkerDrag as closed over by the render r.
handleMarkerDrag(clientX, isStart, r) ==
    LET time == FMul(DragFraction(clientX), r.duration)
    IN  IF isStart
        THEN /\ startTime' = FMin(time, FSub(r.endTime, Tenth))
             /\ UNCHANGED endTime
        ELSE /\ endTime' = FMax(time, FAdd(r.startTime, Tenth))
             /\ UNCHANGED startTime

\* The render a handler created now closes over.
Render(ds, de) ==
    [duration |-> duration, startTime |-> startTime, endTime |-> endTime,
     isDraggingStart |-> ds, isDraggingEnd |-> de]

\* The drag effect (deps [isDraggingStart, isDraggingEnd]): when a flag
\* changes, the old window listeners are removed and, if a drag is active,
\* handleMove/handleEnd of the new render are added.
DragEffect(ds, de) ==
    /\ isDraggingStart' = ds
    /\ isDraggingEnd' = de
    /\ listener' = IF ds = isDraggingStart /\ de = isDraggingEnd THEN listener
                   ELSE IF ds \/ de THEN Render(ds, de)
                   ELSE NoListener

\* onMouseDown / onTouchStart of a marker's hit region.
PressMarker(m) ==
    IF m = "start" THEN DragEffect(TRUE, isDraggingEnd)
                   ELSE DragEffect(isDraggingStart, TRUE)

\* Mouse button pressed on a marker's hit region.
MarkerMouseDown(clientX) ==
    /\ Mounted
    /\ mouseHeld = "none"
    /\ Target(clientX) \in {"start", "end"}
    /\ PressMarker(Target(clientX))
    /\ mouseHeld' = Target(clientX)
    /\ UNCHANGED <<editorVars, uploadVars, duration, rangeVars, playVars,
                   trimVars, engineVars, toast>>
    /\ UNCHANGED envVars

\* A finger put on a marker's hit region; the handler stops the propagation,
\* so the timeline's onTouchStart does not run.
MarkerTouchStart(clientX) ==
    /\ Mounted
    /\ Target(clientX) \in {"start", "end"}
    /\ PressMarker(Target(clientX))
    /\ UNCHANGED <<editorVars, uploadVars, duration, rangeVars, playVars,
                   mouseHeld, trimVars, engineVars, toast>>
    /\ UNCHANGED envVars

\* handleMove that also scrubs the preview to the pointer's time: the variant
\* C24 has to tell from the code.
handleMoveScrubbing(clientX) ==
    /\ listener # NoListener
    /\ IF listener.isDraggingStart
       THEN handleMarkerDrag(clientX, TRUE, listener)
       ELSE IF listener.isDraggingEnd
       THEN handleMarkerDrag(clientX, FALSE, listener)
       ELSE UNCHANGED rangeVars
    /\ handleTimelineClick(NearestOnTimeline(clientX))
    /\ UNCHANGED <<editorVars, uploadVars, duration, dragVars, isPlaying,
                   trimVars, engineVars, toast>>
    /\ UNCHANGED envVars

\* handleMove: a mousemove or touchmove reaching the window while the
\* listeners are registered.
handleMove(clientX) ==
    /\ listener # NoListener
    /\ IF listener.isDraggingStart
       THEN handleMarkerDrag(clientX, TRUE, listener)
       ELSE IF listener.isDraggingEnd
       THEN handleMarkerDrag(clientX, FALSE, listener)
       ELSE UNCHANGED rangeVars
    /\ UNCHANGED <<editorVars, uploadVars, duration, dragVars, playVars,
                   trimVars, engineVars, toast>>
    /\ UNCHANGED envVars

\* handleEnd that ends the drag of the start marker only: the variant C23 has
\* to tell from the code.
handleEndOfStart == DragEffect(FALSE, isDraggingEnd)

\* handleEnd
handleEnd == DragEffect(FALSE, FALSE)

\* touchend reaching the window while the listeners are registered.
TouchEnd ==
    /\ listener # NoListener
    /\ handleEnd
    /\ UNCHANGED <<editorVars, uploadVars, duration, rangeVars, playVars,
                   mouseHeld, trimVars, engineVars, toast>>
    /\ UNCHANGED envVars

\* The mouse button released after a press on a marker: mouseup reaches the
\* window (handleEnd, if registered), then the click is dispatched on the
\* common ancestor of the pressed and the released element, and bubbles to the
\* timeline's onClick when the release is over the timeline or a marker.
MarkerMouseUp(clientX) ==
    /\ Mounted
    /\ mouseHeld # "none"
    /\ mouseHeld' = "none"
    /\ IF listener # NoListener
       THEN handleEnd
       ELSE UNCHANGED <<isDraggingStart, isDraggingEnd, listener>>
    /\ IF Target(clientX) # "outside"
       THEN /\ handleTimelineClick(clientX)
            /\ UNCHANGED isPlaying
       ELSE UNCHANGED playVars
    /\ UNCHANGED <<editorVars, uploadVars, duration, rangeVars, trimVars,
                   engineVars, toast>>
    /\ UNCHANGED envVars

\* A click, or the start of a touch, on the timeline's background.
TimelineClick(clientX) ==
    /\ Mounted
    /\ mouseHeld = "none"
    /\ Target(clientX) = "timeline"
    /\ handleTimelineClick(clientX)
    /\ UNCHANGED <<editorVars, uploadVars, duration, isPlaying, rangeVars,
                   dragVars, trimVars, engineVars, toast>>
    /\ UNCHANGED envVars

\* handleTimeUpdate: the timeupdate event of the preview element.
handleTimeUpdate ==
    /\ Mounted
    /\ currentTime # video.time
    /\ currentTime' = video.time
    /\ UNCHANGED <<editorVars, uploadVars, duration, isPlaying, video, rangeVars,
                   dragVars, trimVars, engineVars, toast>>
    /\ UNCHANGED envVars

\* togglePlayPause of the current render: video.pause() or video.play(), then
\* setIsPlaying(!isPlaying).
\* video.play() on an element whose playback has ended starts again from 0.
togglePlayPause ==
    /\ video' = IF isPlaying
                THEN [video EXCEPT !.paused = TRUE]
                ELSE [video EXCEPT !.paused = FALSE,
                                   !.time = IF video.ready /\ @ = videoFile.duration
                                            THEN 0 ELSE @]
    /\ isPlaying' = ~isPlaying

\* handleKeyPress for the space bar: a keydown reaching the window.  The
\* effect registers the handler anew whenever isPlaying or isProcessing
\* changes, so it sees their current values.
handleKeyPress ==
    /\ Mounted
    /\ IF ~isProcessing
       THEN togglePlayPause
       ELSE UNCHANGED <<isPlaying, video>>
    /\ UNCHANGED <<editorVars, uploadVars, duration, currentTime, rangeVars,
                   dragVars, trimVars, engineVars, toast, envVars>>

\* A click on a preview element that has the browser's own controls, which
\* play or pause it without telling the component: the variant C34 has to
\* tell from the code.
VideoClickOnControls ==
    /\ Mounted
    /\ video' = [video EXCEPT !.paused = ~@]
    /\ UNCHANGED <<editorVars, uploadVars, duration, currentTime, isPlaying,
                   rangeVars, dragVars, trimVars, engineVars, toast, envVars>>

\* A click on the preview element: onClick={togglePlayPause}.
VideoClick ==
    /\ Mounted
    /\ togglePlayPause
    /\ UNCHANGED <<editorVars, uploadVars, duration, currentTime, rangeVars,
                   dragVars, trimVars, engineVars, toast, envVars>>

\* A click on the play/pause button, disabled while isProcessing.
PlayButtonClick ==
    /\ Mounted
    /\ ~isProcessing
    /\ togglePlayPause
    /\ UNCHANGED <<editorVars, uploadVars, duration, currentTime, rangeVars,
                   dragVars, trimVars, engineVars, toast, envVars>>

\* The preview element plays on: its position moves to the middle of the
\* asset.
PlaybackTick ==
    /\ Mounted
    /\ video.ready
    /\ ~video.paused
    /\ video.time < RoundQ(videoFile.duration, 2)
    /\ video' = [video EXCEPT !.time = RoundQ(videoFile.duration, 2)]
    /\ UNCHANGED <<editorVars, uploadVars, duration, currentTime, isPlaying,
                   rangeVars, dragVars, trimVars, engineVars, toast, envVars>>

\* The element that starts over when it reaches the end (a loop): the
\* variant C27 has to tell from the code.
handleEndedLooping ==
    /\ Mounted
    /\ video.ready
    /\ ~video.paused
    /\ video.time # 0
    /\ video' = [video EXCEPT !.time = 0]
    /\ UNCHANGED <<editorVars, uploadVars, duration, currentTime, isPlaying,
                   rangeVars, dragVars, trimVars, engineVars, toast, envVars>>

\* Playback reaches the end of the asset: the element (no loop attribute)
\* pauses and fires ended, handleEnded runs.
handleEnded ==
    /\ Mounted
    /\ video.ready
    /\ ~video.paused
    /\ video' = [video EXCEPT !.time = videoFile.duration, !.paused = TRUE]
    /\ isPlaying' = FALSE
    /\ UNCHANGED <<editorVars, uploadVars, duration, currentTime, rangeVars,
                   dragVars, trimVars, engineVars, toast, envVars>>

-----------------------------------------------------------------------------
(* VideoTimeline: the engine and the trim job (handleTrim) *)

\* load() of the FFmpeg instance of mount g resolves: setFfmpegLoaded(true),
\* which reaches the state of the instance only while it is mounted.
loadFFmpegLoaded(g) ==
    /\ g \in DOMAIN engines
    /\ engines[g] = "loading"
    /\ engines' = [engines EXCEPT ![g] = "loaded"]
    /\ ffmpegLoaded' = IF Mounted /\ g = mounts THEN TRUE ELSE ffmpegLoaded
    /\ UNCHANGED <<editorVars, uploadVars, duration, rangeVars, dragVars,
                   playVars, trimVars, toast>>
    /\ UNCHANGED envVars

\* loadFFmpeg with setFfmpegLoaded(true) run after the try block, whether
\* load() resolved or rejected: the variant C21 has to tell from the code.
loadFFmpegFailedReady(g) ==
    /\ g \in DOMAIN engines
    /\ engines[g] = "loading"
    /\ engines' = [engines EXCEPT ![g] = "failed"]
    /\ toast' = Toast("Failed to load video editor",
                      "Please check your internet connection and refresh the page",
                      "destructive")
    /\ ffmpegLoaded' = IF Mounted /\ g = mounts THEN TRUE ELSE ffmpegLoaded
    /\ UNCHANGED <<editorVars, uploadVars, duration, rangeVars, dragVars,
                   playVars, trimVars>>
    /\ UNCHANGED envVars

\* load() rejects.
loadFFmpegFailed(g) ==
    /\ g \in DOMAIN engines
    /\ engines[g] = "loading"
    /\ engines' = [engines EXCEPT ![g] = "failed"]
    /\ toast' = Toast("Failed to load video editor",
                      "Please check your internet connection and refresh the page",
                      "destructive")
    /\ UNCHANGED <<editorVars, uploadVars, duration, rangeVars, dragVars,
                   playVars, trimVars, ffmpegLoaded>>
    /\ UNCHANGED envVars

toLowerCase(s) ==
    CASE s = "MP4" -> "mp4"
      [] s = "MOV" -> "mov"
      [] s = "AVI" -> "avi"
      [] OTHER -> s

\* videoFile.filename.split(".").pop()?.toLowerCase() || "mp4"
fileExtension(filename) ==
    LET last == toLowerCase(filename[Len(filename)])
    IN  IF last = "" THEN "mp4" ELSE last

inputFileName(filename) == <<"input", fileExtension(filename)>>

outputFileName(filename) == <<"output", fileExtension(filename)>>

\* Number.prototype.toString
NumberToString(n) == ToString(n)

\* The argument list with the range displayed when exec is called instead of
\* the range the job closed over: the variant C32 has to tell from the code.
execArgsOfDisplayedRange(s, e, filename) ==
    << "-ss", NumberToString(startTime), "-to", NumberToString(endTime),
       "-i", inputFileName(filename), "-c", "copy",
       "-avoid_negative_ts", "make_zero", outputFileName(filename) >>

\* The argument list handed to ffmpeg.exec by a job that closed over the
\* render with startTime s, endTime e and the asset's filename.
execArgs(s, e, filename) ==
    << "-ss", NumberToString(s), "-to", NumberToString(e),
       "-i", inputFileName(filename), "-c", "copy",
       "-avoid_negative_ts", "make_zero", outputFileName(filename) >>

Call(op, arg) == [op |-> op, arg |-> arg]

\* `video/${fileExtension}`
VideoType(ext) ==
    CASE ext = "mp4"  -> "video/mp4"
      [] ext = "mov"  -> "video/mov"
      [] ext = "avi"  -> "video/avi"
      [] ext = "webm" -> "video/webm"
      [] ext = "txt"  -> "video/txt"

\* URL.createObjectURL(new Blob([data], {type: `video/${fileExtension}`})) of
\* job j
ObjectUrl(j) ==
    [kind |-> "artifact", blob |-> j,
     type |-> VideoType(fileExtension(jobs[j].filename))]

\* The instance that started job j is still the mounted one: its state
\* setters take effect (those of an unmounted component do nothing).
JobMounted(j) == Mounted /\ jobs[j].gen = mounts

\* The Trim button asking for a range of a whole second: the variant C13 has
\* to tell from the code.
TrimDisabledBelowOneSecond ==
    isProcessing \/ ~ffmpegLoaded \/ FSub(endTime, startTime) < One

\* disabled={isProcessing || !ffmpegLoaded || endTime - startTime < 0.1}
TrimDisabled ==
    isProcessing \/ ~ffmpegLoaded \/ FSub(endTime, startTime) < Tenth

\* handleTrim without the early return of the engine that is not ready: the
\* variant C6 has to tell from the code.
handleTrimNoWait ==
    /\ Mounted
    /\ trimmedVideoUrl' = Null
    /\ isProcessing' = TRUE
    /\ processingProgress' = 0
    /\ jobs' = Append(jobs,
           [gen |-> mounts, pc |-> "writeFile",
            startTime |-> startTime, endTime |-> endTime,
            filename |-> videoFile.filename,
            calls |-> << Call("writeFile", inputFileName(videoFile.filename)) >>])
    /\ UNCHANGED <<videoFile, uploadVars, duration, rangeVars, dragVars,
                   playVars, engineVars, toast>>
    /\ UNCHANGED envVars

\* handleTrim up to its first await.
handleTrim ==
    /\ Mounted
    /\ IF ~ffmpegLoaded
       THEN /\ toast' = Toast("Please wait", "Video editor is still loading",
                              "default")
            /\ UNCHANGED <<isProcessing, trimVars>>
       ELSE /\ trimmedVideoUrl' = Null
            /\ IF videoFile.data
               THEN /\ isProcessing' = TRUE
                    /\ processingProgress' = 0
                    /\ jobs' = Append(jobs,
                           [gen |-> mounts, pc |-> "writeFile",
                            startTime |-> startTime, endTime |-> endTime,
                            filename |-> videoFile.filename,
                            calls |-> << Call("writeFile",
                                              inputFileName(videoFile.filename)) >>])
                    /\ UNCHANGED toast
               ELSE /\ isProcessing' = FALSE
                    /\ processingProgress' = 0
                    /\ toast' = Toast("Failed to trim video",
                           "Video data not available. Please re-upload the video.",
                           "destructive")
                    /\ UNCHANGED jobs
    /\ UNCHANGED <<videoFile, uploadVars, duration, rangeVars, dragVars,
                   playVars, engineVars>>
    /\ UNCHANGED envVars

\* A click on the Trim Video button.
TrimClick ==
    /\ Mounted
    /\ ~TrimDisabled
    /\ handleTrim

\* The job moves to its next call.
Advance(j, pc, call) ==
    jobs' = [jobs EXCEPT ![j].pc = pc, ![j].calls = Append(@, call)]

jobFrame == <<videoFile, uploadVars, duration, rangeVars, dragVars,
              playVars, engineVars>>

\* writeFile resolves and exec is called with the range of the latest render:
\* the variant C7 has to tell from the code.
writeFileResolvedLatest(j) ==
    /\ j \in DOMAIN jobs
    /\ jobs[j].pc = "writeFile"
    /\ Advance(j, "exec",
               Call("exec", execArgs(startTime, endTime, jobs[j].filename)))
    /\ UNCHANGED <<jobFrame, isProcessing, trimmedVideoUrl, processingProgress,
                   toast>>
    /\ UNCHANGED envVars

\* writeFile resolves: exec is called with the closure's startTime, endTime.
writeFileResolved(j) ==
    /\ j \in DOMAIN jobs
    /\ jobs[j].pc = "writeFile"
    /\ Advance(j, "exec",
               Call("exec", execArgs(jobs[j].startTime, jobs[j].endTime,
                                     jobs[j].filename)))
    /\ UNCHANGED <<jobFrame, isProcessing, trimmedVideoUrl, processingProgress,
                   toast>>
    /\ UNCHANGED envVars

\* The progress handler registered in loadFFmpeg, during exec.
onProgress(j, p) ==
    /\ j \in DOMAIN jobs
    /\ jobs[j].pc = "exec"
    /\ JobMounted(j)
    /\ processingProgress' = p
    /\ UNCHANGED <<jobFrame, isProcessing, trimmedVideoUrl, jobs, toast>>
    /\ UNCHANGED envVars

\* exec resolves: readFile is called.
execResolved(j) ==
    /\ j \in DOMAIN jobs
    /\ jobs[j].pc = "exec"
    /\ Advance(j, "readFile", Call("readFile", outputFileName(jobs[j].filename)))
    /\ UNCHANGED <<jobFrame, isProcessing, trimmedVideoUrl, processingProgress,
                   toast>>
    /\ UNCHANGED envVars

\* readFile resolves with setIsProcessing(false) put off until the cleanup is
\* done: the variant C33 has to tell from the code.
readFileResolvedStillBusy(j) ==
    /\ j \in DOMAIN jobs
    /\ jobs[j].pc = "readFile"
    /\ trimmedVideoUrl' = IF JobMounted(j) THEN ObjectUrl(j) ELSE trimmedVideoUrl
    /\ processingProgress' = IF JobMounted(j) THEN 100 ELSE processingProgress
    /\ toast' = Toast("Video trimmed successfully",
                      "Your video is ready to download", "default")
    /\ Advance(j, "deleteInput",
               Call("deleteFile", inputFileName(jobs[j].filename)))
    /\ UNCHANGED <<jobFrame, isProcessing>>
    /\ objectUrls' = objectUrls \cup { ObjectUrl(j) }
    /\ UNCHANGED <<device, download>>

\* readFile resolves: the artifact is exposed, then the cleanup starts.
readFileResolved(j) ==
    /\ j \in DOMAIN jobs
    /\ jobs[j].pc = "readFile"
    /\ trimmedVideoUrl' = IF JobMounted(j) THEN ObjectUrl(j) ELSE trimmedVideoUrl
    /\ isProcessing' = FALSE
    /\ processingProgress' = IF JobMounted(j) THEN 100 ELSE processingProgress
    /\ toast' = Toast("Video trimmed successfully",
                      "Your video is ready to download", "default")
    /\ Advance(j, "deleteInput",
               Call("deleteFile", inputFileName(jobs[j].filename)))
    /\ UNCHANGED jobFrame
    /\ objectUrls' = objectUrls \cup { ObjectUrl(j) }
    /\ UNCHANGED <<device, download>>

\* deleteFile(inputFileName) resolves.
deleteInputResolved(j) ==
    /\ j \in DOMAIN jobs
    /\ jobs[j].pc = "deleteInput"
    /\ Advance(j, "deleteOutput",
               Call("deleteFile", outputFileName(jobs[j].filename)))
    /\ UNCHANGED <<jobFrame, isProcessing, trimmedVideoUrl, processingProgress,
                   toast>>
    /\ UNCHANGED envVars

\* deleteFile(outputFileName) resolves: handleTrim returns.
deleteOutputResolved(j) ==
    /\ j \in DOMAIN jobs
    /\ jobs[j].pc = "deleteOutput"
    /\ jobs' = [jobs EXCEPT ![j].pc = "done"]
    /\ UNCHANGED <<jobFrame, isProcessing, trimmedVideoUrl, processingProgress,
                   toast>>
    /\ UNCHANGED envVars

Awaiting == {"writeFile", "exec", "readFile", "deleteInput", "deleteOutput"}

\* The awaited engine call of job j rejects with the value err: the catch
\* block of handleTrim.
handleTrimCatch(j, err) ==
    /\ j \in DOMAIN jobs
    /\ jobs[j].pc \in Awaiting
    /\ jobs' = [jobs EXCEPT ![j].pc = "failed"]
    /\ toast' = Toast("Failed to trim video",
                      IF err.isError THEN err.text
                                     ELSE "Unknown error occurred",
                      "destructive")
    /\ isProcessing' = FALSE
    /\ processingProgress' = IF JobMounted(j) THEN 0 ELSE processingProgress
    /\ UNCHANGED <<jobFrame, trimmedVideoUrl>>
    /\ UNCHANGED envVars

\* `trimmed-${videoFile.filename}`: the prefix, then the parts of the filename.
DownloadName(filename) == <<"trimmed-">> \o filename

\* handleDownload that clicks the anchor whether or not an artifact exists:
\* the variant C12 has to tell from the code.
handleDownloadAlways ==
    /\ Mounted
    /\ download' = [href |-> trimmedVideoUrl,
                    download |-> DownloadName(videoFile.filename)]
    /\ toast' = Toast("Download started",
                      "Your trimmed video is being downloaded", "default")
    /\ UNCHANGED <<editorVars, uploadVars, duration, rangeVars, dragVars,
                   playVars, trimVars, engineVars, device, objectUrls>>

\* handleDownload: an anchor with the artifact as href is created, clicked and
\* removed.
handleDownload ==
    /\ Mounted
    /\ IF trimmedVideoUrl = Null
       THEN UNCHANGED <<download, toast>>
       ELSE /\ download' = [href |-> trimmedVideoUrl,
                            download |-> DownloadName(videoFile.filename)]
            /\ toast' = Toast("Download started",
                              "Your trimmed video is being downloaded", "default")
    /\ UNCHANGED <<editorVars, uploadVars, duration, rangeVars, dragVars,
                   playVars, trimVars, engineVars, device, objectUrls>>

-----------------------------------------------------------------------------
(* The timeline alone: uploads, metadata, seeks and marker drags *)

TimelineFiles == { f \in Files : f.type # "video/quicktime" }

NextTimeline ==
    \/ \E f \in TimelineFiles : handleUpload(f)
    \/ \E d \in Durations : mounts < MaxMounts /\ handleUploadLoaded(d)
    \/ handleUploadFailed
    \/ handleReset
    \/ handleLoadedMetadata
    \/ \E x \in PointerXs : MarkerMouseDown(x)
    \/ \E x \in PointerXs : MarkerTouchStart(x)
    \/ \E x \in PointerXs : handleMove(x)
    \/ TouchEnd
    \/ \E x \in PointerXs : MarkerMouseUp(x)
    \/ \E x \in PointerXs : TimelineClick(x)
    \/ handleTimeUpdate

SpecTimeline == Init /\ [][NextTimeline]_vars

-----------------------------------------------------------------------------
(* The trim session: the engine, the trim jobs run one after or over another,
   a marker dragged by touch, reset *)

SessionFiles == { f \in Files : f.type = "video/quicktime" }

SessionDurations == { Secs(10, 1) }

SessionXs == { Rect.left + 20 }

\* Uploading, resetting and the metadata of the preview.
Lifecycle(files, maxMounts) ==
    \/ \E f \in files : handleUpload(f)
    \/ \E d \in SessionDurations : mounts < maxMounts /\ handleUploadLoaded(d)
    \/ handleUploadFailed
    \/ handleReset
    \/ handleLoadedMetadata

\* Marker drags by touch.
TouchDrags(xs) ==
    \/ \E x \in xs : MarkerTouchStart(x)
    \/ \E x \in xs : handleMove(x)
    \/ TouchEnd

\* The engine: its load and the awaited calls of the running jobs.
EngineSteps(maxMounts, maxJobs) ==
    \/ \E g \in 1 .. maxMounts : loadFFmpegLoaded(g)
    \/ \E g \in 1 .. maxMounts : loadFFmpegFailed(g)
    \/ \E j \in 1 .. maxJobs : writeFileResolved(j)
    \/ \E j \in 1 .. maxJobs : \E p \in ProgressValues : onProgress(j, p)
    \/ \E j \in 1 .. maxJobs : execResolved(j)
    \/ \E j \in 1 .. maxJobs : readFileResolved(j)
    \/ \E j \in 1 .. maxJobs : deleteInputResolved(j)
    \/ \E j \in 1 .. maxJobs : deleteOutputResolved(j)
    \/ \E j \in 1 .. maxJobs : \E err \in Thrown : handleTrimCatch(j, err)

Session(files, xs, maxMounts, maxJobs) ==
    \/ Lifecycle(files, maxMounts)
    \/ TouchDrags(xs)
    \/ EngineSteps(maxMounts, maxJobs)

Next ==
    \/ Session(SessionFiles, SessionXs, SessionMounts, MaxJobs)
    \/ Len(jobs) < MaxJobs /\ TrimClick

Spec == Init /\ [][Next]_vars

-----------------------------------------------------------------------------
(* The cut: one job at a time, the markers dragged while it runs *)

CutXs == { Rect.left + 20, Rect.left + 40 }

NextCut ==
    \/ Session(SessionFiles, CutXs, CutMounts, CutJobs)
    \/ Len(jobs) < CutJobs /\ TrimClick

SpecCut == Init /\ [][NextCut]_vars

-----------------------------------------------------------------------------
(* Uploading: files of every type, with sizes around the caps and the warning
   thresholds of the devices, on any of the devices *)

\* The sizes at and one byte above 75 % of a cap and the cap itself.
UploadSizes ==
    UNION { { (cap \div 4) * 3, (cap \div 4) * 3 + 1, cap, cap + 1 } :
            cap \in { 256 * MB, 512 * MB, 1024 * MB } }

UploadFiles ==
    Files
    \cup { [name |-> <<"old", "avi">>, type |-> "video/x-msvideo", size |-> 30 * MB],
           [name |-> <<"web", "webm">>, type |-> "video/webm", size |-> 5 * MB],
           [name |-> <<"clip", "mp4">>, type |-> "", size |-> 10 * MB] }
    \cup { [name |-> <<"big", "mp4">>, type |-> "video/mp4", size |-> n] :
           n \in UploadSizes }

InitUpload == \E dev \in Devices : InitIn(dev)

NextUpload ==
    \/ \E f \in UploadFiles : handleUpload(f)
    \/ \E d \in SessionDurations : mounts < CutMounts /\ handleUploadLoaded(d)
    \/ handleUploadFailed
    \/ handleReset

SpecUpload == InitUpload /\ [][NextUpload]_vars

-----------------------------------------------------------------------------
(* Playback during trims: the space bar pressed while jobs run *)

NextPlay ==
    \/ Lifecycle(SessionFiles, SessionMounts)
    \/ EngineSteps(SessionMounts, MaxJobs)
    \/ Len(jobs) < MaxJobs /\ TrimClick
    \/ handleKeyPress

SpecPlay == Init /\ [][NextPlay]_vars

-----------------------------------------------------------------------------
(* The preview of one asset while it is trimmed: the Trim button, the engine,
   and the three ways to toggle playback *)

NextBusy ==
    \/ Lifecycle(SessionFiles, CutMounts)
    \/ EngineSteps(CutMounts, CutJobs)
    \/ Len(jobs) < CutJobs /\ TrimClick
    \/ handleKeyPress
    \/ VideoClick
    \/ PlayButtonClick

SpecBusy == Init /\ [][NextBusy]_vars

-----------------------------------------------------------------------------
(* The way to a trim: the markers dragged by touch over the 10 s asset, the
   engine loading, the Trim button clicked; the jobs started are left at
   their first await *)

ScenarioXs ==
    { Rect.left + 20, Rect.left + 40, Rect.left + 41, Rect.left + Rect.width }

NextScenario ==
    \/ Lifecycle(SessionFiles, CutMounts)
    \/ TouchDrags(ScenarioXs)
    \/ \E g \in 1 .. CutMounts : loadFFmpegLoaded(g)
    \/ Len(jobs) < CutJobs /\ TrimClick

SpecScenario == Init /\ [][NextScenario]_vars

-----------------------------------------------------------------------------
(* The handlers called directly: handleTrim and handleDownload run whatever
   the state of the buttons that trigger them *)

NextHandlers ==
    \/ Lifecycle(SessionFiles, CutMounts)
    \/ EngineSteps(CutMounts, CutJobs)
    \/ Len(jobs) < CutJobs /\ handleTrim
    \/ handleDownload

SpecHandlers == Init /\ [][NextHandlers]_vars

-----------------------------------------------------------------------------
(* The engines of successive timelines: every upload after a reset mounts a
   new VideoTimeline with its own FFmpeg instance, whose load resolves or
   rejects at any later moment; handleTrim is called directly *)

NextEngine ==
    \/ Lifecycle(SessionFiles, MaxMounts)
    \/ EngineSteps(MaxMounts, CutJobs)
    \/ Len(jobs) < CutJobs /\ handleTrim

SpecEngine == Init /\ [][NextEngine]_vars

-----------------------------------------------------------------------------
(* The preview: play and pause by the space bar, the button and a click on
   the picture, playback running to the end, seeks, while the engine loads *)

PreviewXs == { Rect.left + 40, Rect.left + 120 }

NextPreview ==
    \/ Lifecycle(SessionFiles, CutMounts)
    \/ handleKeyPress
    \/ VideoClick
    \/ PlayButtonClick
    \/ PlaybackTick
    \/ handleEnded
    \/ handleTimeUpdate
    \/ \E x \in PreviewXs : TimelineClick(x)
    \/ \E g \in 1 .. CutMounts : loadFFmpegLoaded(g)
    \/ \E g \in 1 .. CutMounts : loadFFmpegFailed(g)

SpecPreview == Init /\ [][NextPreview]_vars

-----------------------------------------------------------------------------
(* Trimming again: one asset trimmed several times, each trim started by the
   button as soon as it is enabled, the artifact downloaded in between *)

NextRetrim ==
    \/ Lifecycle(SessionFiles, CutMounts)
    \/ EngineSteps(CutMounts, RetrimJobs)
    \/ Len(jobs) < RetrimJobs /\ TrimClick
    \/ handleDownload

SpecRetrim == Init /\ [][NextRetrim]_vars

-----------------------------------------------------------------------------
(* Properties of the timeline (SpecTimeline) *)

\* A step of a marker drag: handleMove ran and nothing else did.
DragFrame ==
    /\ listener # NoListener
    /\ UNCHANGED <<editorVars, uploadVars, duration, dragVars, playVars,
                   trimVars, engineVars, toast, envVars>>

DragStep == DragFrame /\ \E x \in PointerXs : handleMove(x)

\* The time a drag step at x maps the pointer to.
DragTime(clientX) == FMul(DragFraction(clientX), listener.duration)

\* C1: once the metadata has resolved, every drag step of either marker, with
\* the pointer anywhere, leaves endTime - startTime >= 0.1.
C1_MinRangeAfterDrag ==
    [][video.ready /\ DragStep => FSub(endTime', startTime') >= Tenth]_vars

\* C2: once the metadata has resolved, 0 <= startTime < endTime <= duration in
\* every state, whatever drags and seeks happened.
C2_RangeInsideAsset ==
    Mounted /\ video.ready =>
        /\ 0 <= startTime
        /\ startTime < endTime
        /\ endTime <= duration

\* C3: a start-marker drag step whose mapped time t exceeds endTime - 0.1 sets
\* startTime to exactly endTime - 0.1, an end-marker drag step whose t is below
\* startTime + 0.1 sets endTime to exactly startTime + 0.1, in every other case
\* the dragged marker becomes t; the other marker keeps its value.  endTime and
\* startTime are those of the state the step starts in.
C3_ClampRule ==
    [][DragFrame /\ rangeVars' # rangeVars =>
         \A x \in PointerXs :
            LET t == DragTime(x)
                rule ==
                    IF listener.isDraggingStart
                    THEN /\ startTime' = IF t > FSub(endTime, Tenth)
                                         THEN FSub(endTime, Tenth) ELSE t
                         /\ endTime' = endTime
                    ELSE /\ endTime' = IF t < FAdd(startTime, Tenth)
                                       THEN FAdd(startTime, Tenth) ELSE t
                         /\ startTime' = startTime
            IN  rule \/ ~handleMove(x)]_vars

\* C3, its case: the start marker was dragged past endTime - 0.1 and sits
\* exactly there, the end marker still at the end of the asset.
C3_StartClamped ==
    /\ video.ready
    /\ listener # NoListener
    /\ listener.isDraggingStart
    /\ endTime = duration
    /\ startTime # 0
    /\ startTime = FSub(endTime, Tenth)

\* A seek: the timeline's onClick ran with the pointer at x.
SeekStep(clientX) ==
    \/ TimelineClick(clientX)
    \/ MarkerMouseUp(clientX) /\ Target(clientX) # "outside"

\* C4: every time the timeline maps a pointer to (a seek, a drag step) equals
\* clamp((x - left) / width, 0, 1) * duration, for x inside or outside the
\* timeline's box, and the cursor a seek sets lies in [0, duration].
C4_MappedTime ==
    [][\A x \in PointerXs :
         LET f == FDiv(x - Rect.left, Rect.width)
             clamped == IF f < 0 THEN 0 ELSE IF f > One THEN One ELSE f
         IN  /\ DragFrame /\ handleMove(x) => DragTime(x) = FMul(clamped, duration)
             /\ Mounted /\ duration # 0 /\ SeekStep(x) =>
                    /\ currentTime' = FMul(clamped, duration)
                    /\ 0 <= currentTime'
                    /\ currentTime' <= duration]_vars

-----------------------------------------------------------------------------
(* Properties of the trim job *)

\* Job j is between its start and its result: Staging (writeFile), Cutting
\* (exec) or retrieving the output (readFile).
InFlight(j) == jobs[j].pc \in {"writeFile", "exec", "readFile"}

\* C5: at most one trim job is between its start and its result at any time.
C5_OneJobInFlight ==
    Cardinality({ j \in DOMAIN jobs : InFlight(j) }) <= 1

PleaseWaitToast == Toast("Please wait", "Video editor is still loading", "default")

\* While the engine of the mounted timeline is not ready, nothing of a trim has
\* happened: no job of this timeline exists, so no engine call was issued.
NotReadyIdle ==
    Mounted /\ ~ffmpegLoaded =>
        /\ ~isProcessing
        /\ trimmedVideoUrl = Null
        /\ processingProgress = 0
        /\ \A j \in DOMAIN jobs : jobs[j].gen # mounts

\* C6: handleTrim run while the engine is not ready only emits the "Please
\* wait" notification: isProcessing stays false, trimmedVideoUrl and
\* processingProgress keep their values, no engine operation is issued.
C6_NotReadyOnlyNotifies ==
    /\ []NotReadyIdle
    /\ [][Mounted /\ ~ffmpegLoaded /\ handleTrim =>
            /\ toast' = PleaseWaitToast
            /\ ~isProcessing'
            /\ UNCHANGED <<trimmedVideoUrl, processingProgress, jobs>>]_vars

\* C6, its case: handleTrim ran before the engine was ready.
C6_AskedToWait ==
    /\ Mounted
    /\ ~ffmpegLoaded
    /\ toast = PleaseWaitToast

\* The calls job j has issued to the engine operation op.
CallsOf(j, op) ==
    { i \in DOMAIN jobs[j].calls : jobs[j].calls[i].op = op }

\* C7: every exec of a trim job gets exactly -ss start -to end -i inputName
\* -c copy -avoid_negative_ts make_zero outputName, start and end being the
\* range at the moment the trim was triggered, inputName the name the job
\* staged and outputName the name it reads afterwards.
C7_ExecArguments ==
    \A j \in DOMAIN jobs :
        \A i \in CallsOf(j, "exec") :
            LET arg == jobs[j].calls[i].arg
            IN  /\ Len(arg) = 11
                /\ <<arg[1], arg[3], arg[5], arg[7], arg[8], arg[9], arg[10]>>
                     = <<"-ss", "-to", "-i", "-c", "copy",
                         "-avoid_negative_ts", "make_zero">>
                /\ arg[2] = ToString(jobs[j].startTime)
                /\ arg[4] = ToString(jobs[j].endTime)
                /\ \A w \in CallsOf(j, "writeFile") : arg[6] = jobs[j].calls[w].arg
                /\ \A r \in CallsOf(j, "readFile") : arg[11] = jobs[j].calls[r].arg
                /\ arg[6] # arg[11]

\* C7, its case: a job has called exec and read the output, and the start
\* marker was dragged after the trim was triggered.
C7_RangeMovedSinceTrigger ==
    \E j \in DOMAIN jobs :
        /\ CallsOf(j, "exec") # {}
        /\ CallsOf(j, "readFile") # {}
        /\ JobMounted(j)
        /\ startTime # jobs[j].startTime

\* C8: a trim whose writeFile, exec and readFile all succeed reaches Ready:
\* the artifact handle is non-null, isProcessing false, processingProgress 100,
\* the success notification is up, and the job went through writeFile, exec
\* and readFile without failing.
C8_SuccessReachesReady ==
    [][\A j \in DOMAIN jobs :
         jobs[j].pc = "readFile" /\ jobs'[j].pc = "deleteInput" =>
            /\ trimmedVideoUrl' # Null
            /\ ~isProcessing'
            /\ processingProgress' = 100
            /\ toast'.title = "Video trimmed successfully"
            /\ [i \in 1 .. 3 |-> jobs'[j].calls[i].op]
                 = <<"writeFile", "exec", "readFile">>]_vars

\* C9: when writeFile, exec or readFile of a job throws, the job fails: the
\* thrown reason is the notification's text, isProcessing is false,
\* processingProgress 0, no artifact is exposed, and the Trim button of the
\* job's timeline is not blocked by the job.
C9_FailureSurfaced ==
    [][\A j \in DOMAIN jobs : \A err \in Thrown :
         InFlight(j) /\ handleTrimCatch(j, err) =>
            /\ jobs'[j].pc = "failed"
            /\ toast'.title = "Failed to trim video"
            /\ toast'.description = err.text
            /\ ~isProcessing'
            /\ processingProgress' = 0
            /\ trimmedVideoUrl' = Null
            /\ JobMounted(j) => ffmpegLoaded']_vars

\* C10: once a job has ended, as done or as failed, deleteFile was called for
\* its staged input and for its output.
C10_CleanupAttempted ==
    \A j \in DOMAIN jobs :
        jobs[j].pc \in {"done", "failed"} =>
            /\ \E i \in CallsOf(j, "deleteFile") :
                   jobs[j].calls[i].arg = inputFileName(jobs[j].filename)
            /\ \E i \in CallsOf(j, "deleteFile") :
                   jobs[j].calls[i].arg = outputFileName(jobs[j].filename)

\* Job j has delivered its result and is deleting its files.
InCleanup(j) == jobs[j].pc \in {"deleteInput", "deleteOutput"}

\* C11: a deleteFile that throws after a successful cut is swallowed: no
\* notification is surfaced and the outcome stays as it was, the artifact
\* exposed, processingProgress and isProcessing not written.
C11_CleanupFailureSwallowed ==
    [][\A j \in DOMAIN jobs : \A err \in Thrown :
         InCleanup(j) /\ handleTrimCatch(j, err) =>
            UNCHANGED <<toast, trimmedVideoUrl, processingProgress,
                        isProcessing>>]_vars

\* A step in which an anchor was clicked or the download was announced.
DownloadStep ==
    \/ download' # download
    \/ toast'.title = "Download started" /\ toast.title # "Download started"

\* C12: handleDownload does nothing without an artifact; with one it clicks an
\* anchor whose href is the artifact and whose download name is "trimmed-"
\* followed by the original filename; either way trimmedVideoUrl,
\* isProcessing, processingProgress, startTime and endTime keep their values.
C12_Download ==
    /\ [][DownloadStep =>
            /\ trimmedVideoUrl # Null
            /\ download'.href = trimmedVideoUrl
            /\ download'.download = <<"trimmed-">> \o videoFile.filename]_vars
    /\ [][Mounted /\ handleDownload =>
            /\ trimmedVideoUrl # Null => download'.href = trimmedVideoUrl
            /\ UNCHANGED <<trimmedVideoUrl, isProcessing, processingProgress,
                           startTime, endTime>>]_vars

\* C12, its case: the artifact on display has been downloaded.
C12_Downloaded ==
    /\ Mounted
    /\ download # NoDownload
    /\ download.href = trimmedVideoUrl
    /\ toast.title = "Download started"

-----------------------------------------------------------------------------
(* The scenario of the short range (SpecScenario) *)

\* The 10 s asset with the start marker at 2 s, the engine ready and no job
\* processing; the end marker, being dragged, is moved to 20.5 % of the
\* timeline: 2.05 s.
EndDraggedTo205 ==
    /\ DragFrame
    /\ duration = Secs(10, 1)
    /\ startTime = Secs(2, 1)
    /\ ffmpegLoaded /\ ~isProcessing
    /\ listener.isDraggingEnd /\ ~listener.isDraggingStart
    /\ handleMove(Rect.left + 41)

\* C13: with the 10 s asset loaded, the start marker dragged to 2 s and the
\* end marker then dragged to 2.05 s, the range is shorter than 0.1 s and the
\* Trim button is disabled, so a trim attempted there is rejected.
C13_ShortRangeRejected ==
    [][EndDraggedTo205 =>
          /\ FSub(endTime', startTime') < Tenth
          /\ TrimDisabled']_vars

\* C13 as the code has it: the end marker dragged to 2.05 s stops at
\* startTime + 0.1; the range there is not shorter than 0.1 s, the Trim button
\* is enabled, and a click on it starts a job for that range.
C13_ClampedRangeAccepted ==
    /\ [][EndDraggedTo205 =>
            /\ endTime' = FAdd(startTime, Tenth)
            /\ startTime' = startTime
            /\ FSub(endTime', startTime') >= Tenth
            /\ ~TrimDisabled']_vars
    /\ [][/\ duration = Secs(10, 1)
          /\ startTime = Secs(2, 1)
          /\ endTime = FAdd(startTime, Tenth)
          /\ ffmpegLoaded /\ ~isProcessing
          /\ jobs' # jobs
          => /\ Len(jobs') = Len(jobs) + 1
             /\ jobs'[Len(jobs')].pc = "writeFile"
             /\ jobs'[Len(jobs')].startTime = startTime
             /\ jobs'[Len(jobs')].endTime = endTime
             /\ isProcessing']_vars

\* C13, its case: the trim of the clamped range [2, 2.1] was started.
C13_ClampedRangeTrimmed ==
    /\ duration = Secs(10, 1)
    /\ startTime = Secs(2, 1)
    /\ endTime = FAdd(startTime, Tenth)
    /\ \E j \in DOMAIN jobs :
         /\ JobMounted(j)
         /\ jobs[j].startTime = startTime
         /\ jobs[j].endTime = endTime

-----------------------------------------------------------------------------
(* Properties of the upload (SpecUpload) *)

Supported(type) ==
    type = "video/mp4" \/ type = "video/quicktime" \/ type = "video/x-msvideo"

\* C14: the upload of a file whose type is none of video/mp4, video/quicktime
\* and video/x-msvideo surfaces the invalid-format notification and changes
\* nothing else: no asset is created, isLoading does not become true, no
\* upload is in progress.
C14_InvalidFormat ==
    /\ [](/\ Mounted => Supported(videoFile.type)
          /\ upload # NoUpload => Supported(upload.type))
    /\ [][\A f \in UploadFiles :
            ~Supported(f.type) /\ handleUpload(f) =>
                /\ toast'.title = "Invalid file format"
                /\ toast'.variant = "destructive"
                /\ videoFile' = NoFile
                /\ ~isLoading'
                /\ UNCHANGED <<editorVars, uploadVars, timelineVars, engines,
                               jobs, envVars>>]_vars

\* C14, its case: a file of an unsupported type was just refused.
C14_Refused ==
    /\ toast.title = "Invalid file format"
    /\ ~Mounted
    /\ ~isLoading
    /\ upload = NoUpload

\* The cap of the device, in bytes.
Cap ==
    IF device.mobile THEN 256 * MB
    ELSE IF device.memory # 0 /\ device.memory <= 4 THEN 512 * MB
    ELSE 1024 * MB

-----------------------------------------------------------------------------
(* Properties of the engine and of the running job *)

\* C16: over all uploads, resets and uploads again, the engine's load is
\* called at most once.  Each entry of engines is one FFmpeg instance whose
\* load() was called.
C16_LoadedOnce ==
    Len(engines) <= 1

\* C17: the blob of a finished trim has the MIME type of the asset it was cut
\* from.
C17_OutputType ==
    \A j \in DOMAIN jobs :
        JobMounted(j) /\ trimmedVideoUrl = ObjectUrl(j) =>
            trimmedVideoUrl.type = videoFile.type

\* C18: while a job runs, processingProgress is an integer of 0 .. 100 and
\* does not decrease, whatever progress events the engine pushes.
C18_ProgressMonotonic ==
    [][\A j \in DOMAIN jobs :
         JobMounted(j) /\ jobs[j].pc = "exec" /\ jobs'[j].pc = "exec" =>
            /\ processingProgress' \in 0 .. 100
            /\ processingProgress' >= processingProgress]_vars

\* C20: while a job is at one of its awaits between its start and its result,
\* isProcessing is true.
C20_BusyWhileInFlight ==
    \A j \in DOMAIN jobs : InFlight(j) => isProcessing

-----------------------------------------------------------------------------
(* Properties of the playback (SpecPlay) *)

\* A job is Staging (writeFile) or Cutting (exec).
StagingOrCutting ==
    \E j \in DOMAIN jobs : jobs[j].pc \in {"writeFile", "exec"}

\* C19: a press of the space bar toggles play/pause when no job is processing,
\* and leaves isPlaying and the play state of the preview element as they are
\* while a job is Staging or Cutting.
C19_SpaceBar ==
    [][Mounted /\ handleKeyPress =>
         IF StagingOrCutting
         THEN UNCHANGED <<isPlaying, video>>
         ELSE /\ isPlaying' = ~isPlaying
              /\ video'.paused = ~video.paused]_vars

-----------------------------------------------------------------------------
(* Properties of the engine's readiness (SpecEngine) *)

\* C21: whenever ffmpegLoaded is true the FFmpeg instance in ffmpegRef (the
\* one the mounted timeline created) has finished load() successfully, and
\* every job, all of whose calls go to the instance of the timeline that
\* started it, was started on an instance whose load had resolved.
C21_ReadyEngine ==
    /\ Mounted /\ ffmpegLoaded => engines[mounts] = "loaded"
    /\ \A j \in DOMAIN jobs : engines[jobs[j].gen] = "loaded"

\* C21: the second timeline's engine runs exec after the first timeline's
\* engine did not load.
C21_CutOnSecondEngine ==
    \E j \in DOMAIN jobs :
        /\ jobs[j].gen = 2
        /\ jobs[j].pc = "exec"
        /\ engines[1] # "loaded"

-----------------------------------------------------------------------------
(* Properties of the drag flags (SpecTimeline) *)

\* C22: isDraggingStart and isDraggingEnd are never both true, whatever the
\* sequence of presses on the markers, pointer moves and releases.
C22_OneMarkerDragged == ~(isDraggingStart /\ isDraggingEnd)

\* The marker handleMove drags (the start marker when both flags are set, the
\* state C22 is about) takes the clamped time of the pointer position on the
\* timeline nearest to clientX; the other marker stays.
MarkerFollows(clientX) ==
    LET t == FMul(FDiv(NearestOnTimeline(clientX) - Rect.left, Rect.width),
                  listener.duration)
    IN  IF listener.isDraggingStart
        THEN /\ startTime' = IF t > FSub(listener.endTime, Tenth)
                             THEN FSub(listener.endTime, Tenth) ELSE t
             /\ endTime' = endTime
        ELSE /\ endTime' = IF t < FAdd(listener.startTime, Tenth)
                           THEN FAdd(listener.startTime, Tenth) ELSE t
             /\ startTime' = startTime

\* A release reaching the window: touchend, or mouseup with the pointer
\* anywhere.
ReleaseStep == TouchEnd \/ \E x \in PointerXs : MarkerMouseUp(x)

\* C23: the window holds the listeners exactly while a drag is active; a
\* pointer move that reaches them, at any position inside or outside the
\* timeline, moves the dragged marker; a touchend or a mouseup reaching the
\* window clears both drag flags and removes the listeners; while no drag is
\* active no pointer move changes startTime or endTime.
C23_WindowDrag ==
    /\ [](isDraggingStart \/ isDraggingEnd <=> listener # NoListener)
    /\ [][DragFrame /\ rangeVars' # rangeVars =>
            \A x \in PointerXs : MarkerFollows(x) \/ ~handleMove(x)]_vars
    /\ [][listener # NoListener /\ ReleaseStep =>
            /\ ~isDraggingStart'
            /\ ~isDraggingEnd'
            /\ listener' = NoListener]_vars
    /\ [][~(isDraggingStart \/ isDraggingEnd)
            /\ (\E x \in PointerXs : handleMove(x)) => UNCHANGED rangeVars]_vars

\* C23: the end marker of the 10 s asset, dragged alone with the pointer
\* right of the timeline and then left of it, has come down to
\* startTime + 0.1 with the start marker at 0.
C23_EndDraggedPastLeftEdge ==
    /\ video.ready
    /\ duration = Secs(10, 1)
    /\ isDraggingEnd
    /\ ~isDraggingStart
    /\ startTime = 0
    /\ endTime = Tenth

-----------------------------------------------------------------------------
(* The playback cursor and the trim range (SpecTimeline) *)

\* A step of a marker drag: the press on a hit region, a pointer move
\* reaching handleMove, the end of the touch.  The release of the mouse
\* button (MarkerMouseUp) is the mouseup, which ends the drag, together with
\* the click that follows it, which is a seek.
MarkerDragStep ==
    \/ \E x \in PointerXs : MarkerMouseDown(x)
    \/ \E x \in PointerXs : MarkerTouchStart(x)
    \/ \E x \in PointerXs : handleMove(x)
    \/ TouchEnd

C25_MarkerPressDoesNotSeek ==
    [][/\ \A x \in PointerXs :
            /\ MarkerMouseDown(x) \/ MarkerTouchStart(x) =>
                  /\ IF Target(x) = "start" THEN isDraggingStart'
                                            ELSE isDraggingEnd'
                  /\ UNCHANGED <<currentTime, video>>
            /\ Mounted /\ MarkerMouseUp(x) /\ Target(x) = mouseHeld =>
                  UNCHANGED <<currentTime, video>>
            /\ TimelineClick(x) =>
                  currentTime' = FMul(ClickFraction(x), duration)
       /\ TouchEnd => UNCHANGED <<currentTime, video>>]_vars


\* C26: the step in which the metadata of the preview resolves leaves the
\* range at startTime = 0, endTime = the asset's duration, for the first
\* asset and for every asset loaded after a reset.
C26_RangeOfNewAsset ==
    [][Mounted /\ ~video.ready /\ video'.ready =>
          /\ startTime' = 0
          /\ endTime' = videoFile.duration
          /\ duration' = videoFile.duration]_vars

\* C26: after a reset and a second upload, the metadata of the short asset
\* has resolved.
C26_SecondAssetLoaded ==
    /\ mounts = 2
    /\ video.ready
    /\ videoFile.duration = Secs(1, 16)
    /\ startTime = 0
    /\ endTime = Secs(1, 16)

-----------------------------------------------------------------------------
(* Properties of the preview (SpecPreview) *)

\* A toggle by the user: the space bar, a click on the picture or on the
\* play/pause button.
UserToggle == handleKeyPress \/ VideoClick \/ PlayButtonClick

\* C27: when playback reaches the end of the asset isPlaying becomes false
\* and the element is paused at the end, and a paused element starts playing
\* only in a step that is a toggle by the user.
C27_AutoPause ==
    [][/\ handleEnded =>
            /\ ~isPlaying'
            /\ video'.paused
            /\ video'.time = videoFile.duration
       /\ Mounted /\ video.paused /\ Mounted' /\ ~video'.paused => UserToggle]_vars

\* C27: playback has run to the end of the asset (no seek of this
\* specification leads there) and stopped.
C27_Ended ==
    /\ video.ready
    /\ video.time = videoFile.duration
    /\ video.paused
    /\ ~isPlaying
    /\ currentTime = videoFile.duration

-----------------------------------------------------------------------------
(* No cancellation (Spec) *)

\* C28: while a job waits for the same engine call of its staging or cut
\* (the call has neither resolved nor rejected in the step), no step sets
\* isProcessing to false: if the call never resolves isProcessing stays true.
C28_NoCancellation ==
    [][\A j \in DOMAIN jobs :
          /\ InFlight(j)
          /\ jobs'[j].pc = jobs[j].pc
          /\ isProcessing
          => isProcessing']_vars

-----------------------------------------------------------------------------
(* The artifact's object URL (Spec) *)

\* The object URLs of artifacts that have not been revoked.
LiveArtifacts == { u \in objectUrls : u.kind = "artifact" }

\* C29: after the step that resets the session no artifact URL is left
\* unrevoked, and after the step in which a job succeeds the only unrevoked
\* artifact URL is that job's.
C29_ArtifactReleased ==
    [][/\ Mounted /\ ~Mounted' => LiveArtifacts' = {}
       /\ \A j \in DOMAIN jobs :
            readFileResolved(j) => LiveArtifacts' = { ObjectUrl(j) }]_vars

-----------------------------------------------------------------------------
(* The engine that failed to load (SpecEngine) *)

\* The FFmpeg instances whose load() rejected.
FailedEngines == { g \in DOMAIN engines : engines[g] = "failed" }

\* C30: the failure to load the engine is surfaced at most once, and once an
\* engine has failed to load with none loaded before, ffmpegLoaded does not
\* become true and no trim job starts, whatever the user does (resetting and
\* loading another video included).
C30_StaysUnusable ==
    /\ [](Cardinality(FailedEngines) <= 1)
    /\ [][/\ FailedEngines # {}
          /\ \A g \in DOMAIN engines : engines[g] # "loaded"
          => /\ ~ffmpegLoaded'
             /\ jobs' = jobs]_vars

-----------------------------------------------------------------------------
(* The names in the engine's filesystem (Spec) *)

\* C31: while a job is between the call of its writeFile and the result of
\* its readFile, no other job of the same FFmpeg instance issues a file
\* operation (writeFile, exec, readFile or a cleanup deleteFile) on the shared
\* names input.<ext> and output.<ext>.
C31_NamesNotShared ==
    [][\A k \in DOMAIN jobs : \A j \in DOMAIN jobs' :
          /\ j # k
          /\ InFlight(k)
          /\ jobs'[j].gen = jobs[k].gen
          => /\ j \in DOMAIN jobs
             /\ Len(jobs'[j].calls) = Len(jobs[j].calls)]_vars

-----------------------------------------------------------------------------
(* The range of a running job (SpecCut) *)

\* C32: a job starts with the startTime and endTime of the moment of its
\* trigger, no later step (a marker drag least of all) changes that snapshot
\* or any call the job has issued, and the exec call a job issues carries the
\* snapshot, whatever the displayed range is by then.
C32_SnapshotRange ==
    [][/\ \A j \in DOMAIN jobs' \ DOMAIN jobs :
            /\ jobs'[j].startTime = startTime
            /\ jobs'[j].endTime = endTime
       /\ \A j \in DOMAIN jobs :
            /\ jobs'[j].startTime = jobs[j].startTime
            /\ jobs'[j].endTime = jobs[j].endTime
            /\ jobs[j].pc = "writeFile" /\ jobs'[j].pc = "exec" =>
                 LET arg == jobs'[j].calls[Len(jobs'[j].calls)].arg
                 IN  /\ arg[2] = NumberToString(jobs[j].startTime)
                     /\ arg[4] = NumberToString(jobs[j].endTime)
       /\ rangeVars' # rangeVars => jobs' = jobs]_vars

\* C32: a job of the mounted timeline is cutting, with the range it was
\* triggered with, after the start marker was dragged away from it.
C32_DraggedWhileCutting ==
    \E j \in DOMAIN jobs :
        /\ jobs[j].pc = "exec"
        /\ JobMounted(j)
        /\ startTime # jobs[j].startTime
        /\ jobs[j].calls[2].arg[2] = NumberToString(jobs[j].startTime)

-----------------------------------------------------------------------------
(* The artifact while a job is processing (SpecRetrim) *)

\* C33: in every state isProcessing implies that trimmedVideoUrl is null (the
\* download control is rendered exactly while it is not).
C33_NoArtifactWhileProcessing == isProcessing => trimmedVideoUrl = Null

\* C33: a second trim is processing after a first one had exposed its
\* artifact, which the start of the second has cleared.
C33_SecondTrimProcessing ==
    /\ isProcessing
    /\ Len(jobs) = 2
    /\ InFlight(2)
    /\ jobs[1].pc \in {"deleteInput", "deleteOutput", "done"}
    /\ ObjectUrl(1) \in objectUrls
    /\ trimmedVideoUrl = Null

-----------------------------------------------------------------------------
(* The play state (SpecPreview) *)

\* C34: in every state of a mounted timeline isPlaying is true exactly when
\* the preview element is not paused, whatever toggles (space bar, button,
\* click on the picture), seeks and ends of playback came before.
C34_PlayStateAgrees == Mounted => (isPlaying <=> ~video.paused)

\* C34: playback ran to the end and was started again by a toggle: the
\* element plays from 0 while currentTime still shows the end.
C34_PlayingAgain ==
    /\ video.ready
    /\ isPlaying
    /\ ~video.paused
    /\ video.time = 0
    /\ currentTime = videoFile.duration


\* C35: while isProcessing is true the play state of the mounted timeline
\* does not change: no step taken with the same timeline mounted before and
\* after changes isPlaying or plays or pauses the preview element.
C35_NoToggleWhileProcessing ==
    [][isProcessing /\ Mounted /\ Mounted' /\ mounts' = mounts =>
          /\ isPlaying' = isPlaying
          /\ video'.paused = video.paused]_vars

====
